---- MODULE Spec2Model ----
(***************************************************************************)
(* A model of crd2pulumi's schema translation (gen/schema.go): GetTypes,   *)
(* genPackage, AddType, GetTypeSpec and CombineSchemas.                    *)
(*                                                                         *)
(* Go strings that the code builds by concatenation (type names, tokens,   *)
(* references) are sequences of string chunks, and + is \o.  Every other   *)
(* string is a TLA+ string.  A decoded JSON/YAML value (interface{}) is a  *)
(* tagged record: JNull, JBool, JStr, JList, JMap.                         *)
(***************************************************************************)
EXTENDS Integers, Sequences, FiniteSets, TLC

VARIABLES
    pc,                   \* position of the run
    order,                \* the order in which this run's `range` over a properties map yields keys
    schemaOf,             \* pg.CustomResourceGenerators: resource -> root schema
    todo,                 \* resources the loops of GetTypes have not reached yet
    types,                \* the registry (map[string]pschema.ComplexTypeSpec)
    emptySpecProperties,  \* contents of the map emptySpec.Properties points to (package-level)
    lastResource,         \* the resource the last iteration of GetTypes processed
    typesBefore,          \* the registry as it was handed to genPackage
    includeObjectMetaType,\* genPackage's third argument
    pkg,                  \* what genPackage returned: the package spec it imported
    err,                  \* whether genPackage returned an error
    schema,               \* GetTypeSpec runs: the schema node resolved
    result1,              \* first run:  [ts |-> descriptor, types |-> registry]
    result2,              \* second run, same schema and name, under the order order2
    order2                \* the map iteration order of the second run

vars == <<pc, order, schemaOf, todo, types, emptySpecProperties, lastResource,
          typesBefore, includeObjectMetaType, pkg, err, schema, result1, result2,
          order2>>

(***************************************************************************)
(* Decoded JSON values                                                     *)
(***************************************************************************)
JNull == [tag |-> "null"]
JBool(b) == [tag |-> "bool", b |-> b]
JStr(s) == [tag |-> "string", s |-> s]
JList(l) == [tag |-> "list", l |-> l]
JMap(m) == [tag |-> "map", m |-> m]

EmptyMap == <<>>

\* a nil map[string]interface{} is JNull; indexing it finds nothing
HasField(obj, f) == obj.tag = "map" /\ f \in DOMAIN obj.m

NestedFieldNoCopy(obj, f) == IF HasField(obj, f) THEN obj.m[f] ELSE JNull

NestedMapFound(obj, f) == HasField(obj, f) /\ obj.m[f].tag = "map"

NestedMap(obj, f) == IF NestedMapFound(obj, f) THEN obj.m[f] ELSE JNull

NestedBoolFound(obj, f) == HasField(obj, f) /\ obj.m[f].tag = "bool"

NestedBool(obj, f) == IF NestedBoolFound(obj, f) THEN obj.m[f].b ELSE FALSE

NestedStringFound(obj, f) == HasField(obj, f) /\ obj.m[f].tag = "string"

NestedString(obj, f) == IF NestedStringFound(obj, f) THEN obj.m[f].s ELSE ""

AllStrings(l) == \A i \in 1..Len(l) : l[i].tag = "string"

NestedStringSliceFound(obj, f) ==
    /\ HasField(obj, f)
    /\ obj.m[f].tag = "list"
    /\ AllStrings(obj.m[f].l)

NestedStringSlice(obj, f) ==
    IF NestedStringSliceFound(obj, f)
    THEN [i \in 1..Len(obj.m[f].l) |-> obj.m[f].l[i].s]
    ELSE <<>>

AllMaps(l) == \A i \in 1..Len(l) : l[i].tag = "map"

NestedMapSliceFound(obj, f) ==
    /\ HasField(obj, f)
    /\ obj.m[f].tag = "list"
    /\ AllMaps(obj.m[f].l)

NestedMapSlice(obj, f) == IF NestedMapSliceFound(obj, f) THEN obj.m[f].l ELSE <<>>

toInterfaceSlice(strs) == JList([i \in 1..Len(strs) |-> JStr(strs[i])])

(***************************************************************************)
(* Constants of gen/schema.go                                              *)
(***************************************************************************)
DefaultName == "crds"
Boolean == "boolean"
Integer == "integer"
Number == "number"
String == "string"
Array == "array"
Object == "object"

anyTypeRef == <<"pulumi.json#/Any">>
objectMetaToken == <<"kubernetes:meta/v1:ObjectMeta">>
objectMetaRef == <<"#/types/">> \o objectMetaToken

NilPtr == [nil |-> TRUE]

\* the zero value of pschema.TypeSpec
ZeroTypeSpec ==
    [Type |-> "", Ref |-> <<>>, Items |-> NilPtr, AdditionalProperties |-> NilPtr, OneOf |-> <<>>]

anyTypeSpec == [ZeroTypeSpec EXCEPT !.Ref = anyTypeRef]

arbitraryJSONTypeSpec ==
    [ZeroTypeSpec EXCEPT !.Type = Object, !.AdditionalProperties = anyTypeSpec]

intOrStringTypeSpec ==
    [ZeroTypeSpec EXCEPT !.OneOf = << [ZeroTypeSpec EXCEPT !.Type = Integer],
                                      [ZeroTypeSpec EXCEPT !.Type = String] >>]

isAnyType(typeSpec) == typeSpec.Ref = anyTypeRef

\* A pschema.PropertySpec.  Const is a chunk sequence (<<>> when unset).
PropertySpec(ts, description, default, const) ==
    [TypeSpec |-> ts, Description |-> description, Default |-> default, Const |-> const]

\* A Go map value is a reference.  Properties.shared says that the field holds
\* the one map emptySpec.Properties points to (its contents are the variable
\* emptySpecProperties); otherwise the map is this entry's own and m is it.
OwnProperties(m) == [shared |-> FALSE, m |-> m]
SharedProperties == [shared |-> TRUE, m |-> EmptyMap]

ComplexTypeSpec(type, properties, required, description) ==
    [Type |-> type, Properties |-> properties, Required |-> required,
     Description |-> description]

emptySpec == ComplexTypeSpec(Object, SharedProperties, <<>>, "")

\* the properties a registry entry shows, given the contents of the shared map
PropertiesOf(spec, shared) == IF spec.Properties.shared THEN shared ELSE spec.Properties.m

\* m[k] = v on a Go map
Put(m, k, v) == (k :> v) @@ m

(***************************************************************************)
(* The iteration order of a Go map is unspecified.  A run draws one order  *)
(* of the property names (order) and every `range` over a properties map   *)
(* in that run yields the map's keys in that order.                        *)
(***************************************************************************)
PropNames == {"a", "A", "b"}

KeysInOrder(m, ord) == SelectSeq(ord, LAMBDA p : p \in DOMAIN m)

\* strings.Title on the property names of the model: the first letter in upper case
Title(p) ==
    CASE p = "a" -> "A"
      [] p = "b" -> "B"
      [] OTHER -> p

(***************************************************************************)
(* CombineSchemas                                                          *)
(***************************************************************************)
\* lines 331-335: one sub-schema's properties written over the combined ones
CombineProperties(combined, sub) ==
    LET properties == NestedMap(sub, "properties")
        keys == IF properties.tag = "map" THEN DOMAIN properties.m ELSE {}
    IN [p \in (DOMAIN combined) \cup keys |->
            IF p \in keys THEN NestedMap(properties, p) ELSE combined[p]]

RECURSIVE CombineLoop(_, _, _, _)
CombineLoop(combineRequired, schemas, combinedProperties, combinedRequired) ==
    IF schemas = <<>>
    THEN [properties |-> combinedProperties, required |-> combinedRequired]
    ELSE LET sub == Head(schemas)
         IN CombineLoop(combineRequired, Tail(schemas),
                        CombineProperties(combinedProperties, sub),
                        IF combineRequired /\ NestedStringSliceFound(sub, "required")
                        THEN combinedRequired \o NestedStringSlice(sub, "required")
                        ELSE combinedRequired)

\* CombineSchemas with the required lists merged whatever combineRequired says
CombineSchemasAlwaysRequired(combineRequired, schemas) ==
    IF Len(schemas) = 0 THEN JNull
    ELSE IF Len(schemas) = 1 THEN schemas[1]
    ELSE LET c == CombineLoop(TRUE, schemas, EmptyMap, <<>>)
         IN JMap(("required" :> toInterfaceSlice(c.required))
                 @@ ("type" :> JStr(Object)) @@ ("properties" :> JMap(c.properties)))

CombineSchemas(combineRequired, schemas) ==
    IF Len(schemas) = 0 THEN JNull
    ELSE IF Len(schemas) = 1 THEN schemas[1]
    ELSE LET c == CombineLoop(combineRequired, schemas, EmptyMap, <<>>)
             base == ("type" :> JStr(Object)) @@ ("properties" :> JMap(c.properties))
         IN IF combineRequired
            THEN JMap(("required" :> toInterfaceSlice(c.required)) @@ base)
            ELSE JMap(base)

(***************************************************************************)
(* AddType and GetTypeSpec.  Both write to the registry they are handed,   *)
(* so each returns the registry as it leaves it.                           *)
(***************************************************************************)
RECURSIVE AddType(_, _, _, _)
RECURSIVE AddTypeLoop(_, _, _, _, _, _)
RECURSIVE GetTypeSpec(_, _, _, _)
RECURSIVE OneOfLoop(_, _, _, _, _, _)

\* lines 174-183
AddTypeLoop(properties, keys, name, tys, propertySpecs, ord) ==
    IF keys = <<>>
    THEN [types |-> tys, propertySpecs |-> propertySpecs]
    ELSE LET propertyName == Head(keys)
             propertySchema == NestedMap(properties, propertyName)
             r == GetTypeSpec(propertySchema, name \o <<Title(propertyName)>>, tys, ord)
         IN AddTypeLoop(properties, Tail(keys), name, r.types,
                        Put(propertySpecs, propertyName,
                            PropertySpec(r.ts,
                                         NestedString(propertySchema, "description"),
                                         NestedFieldNoCopy(propertySchema, "default"),
                                         <<>>)),
                        ord)

AddType(sch, name, tys, ord) ==
    LET properties == NestedMap(sch, "properties")
        foundProperties == NestedMapFound(sch, "properties")
        description == NestedString(sch, "description")
        schemaType == NestedString(sch, "type")
        required == NestedStringSlice(sch, "required")
        keys == IF foundProperties THEN KeysInOrder(properties.m, ord) ELSE <<>>
        loop == AddTypeLoop(properties, keys, name, tys, EmptyMap, ord)
    IN Put(loop.types, name,
           ComplexTypeSpec(IF foundProperties /\ schemaType = "" THEN Object ELSE schemaType,
                           OwnProperties(loop.propertySpecs), required, description))

\* the oneOf loop with `continue` where the code returns: an alternative that
\* resolves to any is left out of the union
OneOfLoopSkipAny(oneOf, i, name, tys, oneOfTypeSpecs, ord) ==
    IF i > Len(oneOf)
    THEN [ts |-> [ZeroTypeSpec EXCEPT !.OneOf = oneOfTypeSpecs], types |-> tys]
    ELSE LET r == GetTypeSpec(oneOf[i], name \o <<"OneOf", ToString(i - 1)>>, tys, ord)
         IN OneOfLoop(oneOf, i + 1, name, r.types,
                      IF isAnyType(r.ts) THEN oneOfTypeSpecs ELSE Append(oneOfTypeSpecs, r.ts),
                      ord)

\* lines 217-227; i counts from 1, the code's index is i - 1
OneOfLoop(oneOf, i, name, tys, oneOfTypeSpecs, ord) ==
    IF i > Len(oneOf)
    THEN [ts |-> [ZeroTypeSpec EXCEPT !.OneOf = oneOfTypeSpecs], types |-> tys]
    ELSE LET r == GetTypeSpec(oneOf[i], name \o <<"OneOf", ToString(i - 1)>>, tys, ord)
         IN IF isAnyType(r.ts)
            THEN [ts |-> anyTypeSpec, types |-> r.types]
            ELSE OneOfLoop(oneOf, i + 1, name, r.types, Append(oneOfTypeSpecs, r.ts), ord)

\* the object case without the call of AddType
ObjectCaseUnregistered(sch, name, tys, ord) ==
    IF NestedMapFound(sch, "additionalProperties")
    THEN LET r == GetTypeSpec(NestedMap(sch, "additionalProperties"), name, tys, ord)
         IN [ts |-> [ZeroTypeSpec EXCEPT !.Type = Object, !.AdditionalProperties = r.ts],
             types |-> r.types]
    ELSE IF NestedBoolFound(sch, "additionalProperties")
            /\ NestedBool(sch, "additionalProperties")
    THEN [ts |-> [ZeroTypeSpec EXCEPT !.Type = Object, !.AdditionalProperties = anyTypeSpec],
          types |-> tys]
    ELSE IF ~NestedMapFound(sch, "properties")
    THEN [ts |-> arbitraryJSONTypeSpec, types |-> tys]
    ELSE [ts |-> [ZeroTypeSpec EXCEPT !.Type = Object, !.Ref = <<"#/types/">> \o name],
          types |-> tys]

\* lines 270-298
ObjectCase(sch, name, tys, ord) ==
    LET added == AddType(sch, name, tys, ord)
    IN IF NestedMapFound(sch, "additionalProperties")
       THEN LET r == GetTypeSpec(NestedMap(sch, "additionalProperties"), name, added, ord)
            IN [ts |-> [ZeroTypeSpec EXCEPT !.Type = Object, !.AdditionalProperties = r.ts],
                types |-> r.types]
       ELSE IF NestedBoolFound(sch, "additionalProperties")
               /\ NestedBool(sch, "additionalProperties")
       THEN [ts |-> [ZeroTypeSpec EXCEPT !.Type = Object, !.AdditionalProperties = anyTypeSpec],
             types |-> added]
       ELSE IF ~NestedMapFound(sch, "properties")
       THEN [ts |-> arbitraryJSONTypeSpec, types |-> added]
       ELSE [ts |-> [ZeroTypeSpec EXCEPT !.Type = Object, !.Ref = <<"#/types/">> \o name],
             types |-> added]

\* lines 262-311
TypeSwitch(sch, name, tys, ord) ==
    LET schemaType == NestedString(sch, "type")
    IN CASE schemaType = Array ->
              LET r == GetTypeSpec(NestedMap(sch, "items"), name, tys, ord)
              IN [ts |-> [ZeroTypeSpec EXCEPT !.Type = Array, !.Items = r.ts],
                  types |-> r.types]
         [] schemaType = Object -> ObjectCase(sch, name, tys, ord)
         [] schemaType \in {Integer, Boolean, String, Number} ->
              [ts |-> [ZeroTypeSpec EXCEPT !.Type = schemaType], types |-> tys]
         [] OTHER -> [ts |-> anyTypeSpec, types |-> tys]

\* GetTypeSpec with the preserve-unknown-fields rule consulted after the type
GetTypeSpecTypeBeforePreserve(sch, name, tys, ord) ==
    IF sch = JNull
    THEN [ts |-> anyTypeSpec, types |-> tys]
    ELSE IF NestedBoolFound(sch, "x-kubernetes-int-or-string")
            /\ NestedBool(sch, "x-kubernetes-int-or-string")
    THEN [ts |-> intOrStringTypeSpec, types |-> tys]
    ELSE IF NestedMapSliceFound(sch, "oneOf")
    THEN OneOfLoop(NestedMapSlice(sch, "oneOf"), 1, name, tys, <<>>, ord)
    ELSE IF NestedMapSliceFound(sch, "allOf")
    THEN GetTypeSpec(CombineSchemas(TRUE, NestedMapSlice(sch, "allOf")), name, tys, ord)
    ELSE IF NestedMapSliceFound(sch, "anyOf")
    THEN GetTypeSpec(CombineSchemas(FALSE, NestedMapSlice(sch, "anyOf")), name, tys, ord)
    ELSE IF NestedStringFound(sch, "type")
    THEN TypeSwitch(sch, name, tys, ord)
    ELSE IF NestedBoolFound(sch, "x-kubernetes-preserve-unknown-fields")
            /\ NestedBool(sch, "x-kubernetes-preserve-unknown-fields")
    THEN [ts |-> arbitraryJSONTypeSpec, types |-> tys]
    ELSE [ts |-> anyTypeSpec, types |-> tys]

GetTypeSpec(sch, name, tys, ord) ==
    IF sch = JNull
    THEN [ts |-> anyTypeSpec, types |-> tys]
    ELSE IF NestedBoolFound(sch, "x-kubernetes-int-or-string")
            /\ NestedBool(sch, "x-kubernetes-int-or-string")
    THEN [ts |-> intOrStringTypeSpec, types |-> tys]
    ELSE IF NestedMapSliceFound(sch, "oneOf")
    THEN OneOfLoop(NestedMapSlice(sch, "oneOf"), 1, name, tys, <<>>, ord)
    ELSE IF NestedMapSliceFound(sch, "allOf")
    THEN GetTypeSpec(CombineSchemas(TRUE, NestedMapSlice(sch, "allOf")), name, tys, ord)
    ELSE IF NestedMapSliceFound(sch, "anyOf")
    THEN GetTypeSpec(CombineSchemas(FALSE, NestedMapSlice(sch, "anyOf")), name, tys, ord)
    ELSE IF NestedBoolFound(sch, "x-kubernetes-preserve-unknown-fields")
            /\ NestedBool(sch, "x-kubernetes-preserve-unknown-fields")
    THEN [ts |-> arbitraryJSONTypeSpec, types |-> tys]
    ELSE IF ~NestedStringFound(sch, "type")
    THEN [ts |-> anyTypeSpec, types |-> tys]
    ELSE TypeSwitch(sch, name, tys, ord)

(***************************************************************************)
(* Resources: pg.CustomResourceGenerators.  Generator c has group          *)
(* "group<c>" and kind "Kind<c>"; the first one carries two versions.      *)
(***************************************************************************)
NumCrgs == 2

Versions(c) == IF c = 1 THEN {"v1", "v2"} ELSE {"v1"}

Resources == {r \in [crg : 1..NumCrgs, version : {"v1", "v2"}] : r.version \in Versions(r.crg)}

Group(r) == <<"group", ToString(r.crg)>>
Kind(r) == <<"Kind", ToString(r.crg)>>

getToken(group, version, kind) == <<"kubernetes", ":">> \o group \o <<"/", version, ":">> \o kind

Token(r) == getToken(Group(r), r.version, Kind(r))

\* tokens.ModuleMember(tok).Package(): the text before the first colon
PackageOf(tok) == Head(tok)

(***************************************************************************)
(* GetTypes: one iteration of its loops (lines 77-104) for resource r      *)
(***************************************************************************)
apiVersionSpec(r) ==
    PropertySpec([ZeroTypeSpec EXCEPT !.Type = String], "", JNull, Group(r) \o <<"/", r.version>>)

kindSpec(r) == PropertySpec([ZeroTypeSpec EXCEPT !.Type = String], "", JNull, Kind(r))

metadataSpec == PropertySpec([ZeroTypeSpec EXCEPT !.Ref = objectMetaRef], "", JNull, <<>>)

\* lines 87-103, on the map m
Inject(m, r) ==
    Put(Put(Put(m, "apiVersion", apiVersionSpec(r)), "kind", kindSpec(r)),
        "metadata", metadataSpec)

foundProperties(r) == NestedMapFound(schemaOf[r], "properties")

preserveUnknownFields(r) == NestedBool(schemaOf[r], "x-kubernetes-preserve-unknown-fields")

\* the two registrations with AddType called whether or not properties were found
RegisteredUnconditionally(r) ==
    LET added == AddType(schemaOf[r], Token(r), types, order)
    IN IF preserveUnknownFields(r) THEN Put(added, Token(r), emptySpec) ELSE added

\* the two registrations in the other order: the placeholder first, AddType over it
RegisteredPlaceholderFirst(r) ==
    LET placed == IF preserveUnknownFields(r) THEN Put(types, Token(r), emptySpec) ELSE types
    IN IF foundProperties(r) THEN AddType(schemaOf[r], Token(r), placed, order) ELSE placed

\* lines 79-85: the registry after the two conditional registrations
Registered(r) ==
    LET added == IF foundProperties(r)
                 THEN AddType(schemaOf[r], Token(r), types, order)
                 ELSE types
    IN IF preserveUnknownFields(r) THEN Put(added, Token(r), emptySpec) ELSE added

GetTypesIteration(r) ==
    /\ pc = "GetTypes"
    /\ r \in todo
    /\ todo' = todo \ {r}
    /\ lastResource' = r
    /\ LET reg == Registered(r)
       IN IF foundProperties(r) \/ preserveUnknownFields(r)
          THEN IF reg[Token(r)].Properties.shared
               THEN /\ emptySpecProperties' = Inject(emptySpecProperties, r)
                    /\ types' = reg
               ELSE /\ types' = [reg EXCEPT ![Token(r)].Properties.m = Inject(@, r)]
                    /\ UNCHANGED emptySpecProperties
          ELSE /\ types' = reg
               /\ UNCHANGED emptySpecProperties
    /\ UNCHANGED <<pc, order, schemaOf, typesBefore, includeObjectMetaType, pkg, err,
                   schema, result1, result2, order2>>

(***************************************************************************)
(* genPackage (lines 113-157), called with the registry GetTypes returned  *)
(***************************************************************************)
\* pg.ResourceTokens: the tokens of the resources that are not skipped
ResourceTokens ==
    {Token(r) : r \in {x \in Resources : foundProperties(x) \/ preserveUnknownFields(x)}}

objectMetaPlaceholder == ComplexTypeSpec("object", OwnProperties(EmptyMap), <<>>, "")

ZeroComplexTypeSpec == ComplexTypeSpec("", OwnProperties(EmptyMap), <<>>, "")

Lookup(tys, name) == IF name \in DOMAIN tys THEN tys[name] ELSE ZeroComplexTypeSpec

\* delete(m, k)
Delete(m, k) == [x \in (DOMAIN m) \ {k} |-> m[x]]

\* lines 122-137
ResourceSpecs(tys, resourceTokens) ==
    [baseRef \in resourceTokens |->
        [ObjectTypeSpec |-> Lookup(tys, baseRef),
         InputProperties |-> Lookup(tys, baseRef).Properties]]

\* sort.Strings on package names: "crds" < "kubernetes"
SortStrings(pkgs) == SelectSeq(<<"crds", "kubernetes">>, LAMBDA p : p \in pkgs)

AllowedPackageNames(resourceTokens) ==
    SortStrings({DefaultName, "kubernetes"} \cup {PackageOf(t) : t \in resourceTokens})

NoPackage == [Name |-> "", Types |-> EmptyMap, Resources |-> EmptyMap, AllowedPackageNames |-> <<>>]

\* lines 114-120
WithPlaceholder(tys, include) ==
    IF include THEN Put(tys, objectMetaToken, objectMetaPlaceholder) ELSE tys

\* the registry as genPackage leaves it: lines 147-156
AfterImport(tys, include, importOk) ==
    IF ~importOk THEN tys
    ELSE IF include THEN Delete(tys, objectMetaToken)
    ELSE tys

\* importOk: whether pschema.ImportSpec, the external validator, accepted the spec
genPackage(include, importOk) ==
    /\ pc = "GetTypes"
    /\ todo = {}
    /\ pc' = "done"
    /\ typesBefore' = types
    /\ includeObjectMetaType' = include
    /\ LET built == WithPlaceholder(types, include)
           pkgSpec == [Name |-> DefaultName,
                       Types |-> built,
                       Resources |-> ResourceSpecs(built, ResourceTokens),
                       AllowedPackageNames |-> AllowedPackageNames(ResourceTokens)]
       IN /\ pkg' = IF importOk THEN pkgSpec ELSE NoPackage
          /\ err' = ~importOk
          /\ types' = AfterImport(built, include, importOk)
    /\ UNCHANGED <<order, schemaOf, todo, emptySpecProperties, lastResource,
                   schema, result1, result2, order2>>

(***************************************************************************)
(* Inputs: schema nodes as the YAML decoder produces them                  *)
(***************************************************************************)
MaxAlts == 2

PUF == "x-kubernetes-preserve-unknown-fields"
IOS == "x-kubernetes-int-or-string"

Absent == [tag |-> "absent"]

\* a map entry, or nothing when the key is left out
Opt(k, v) == IF v = Absent THEN EmptyMap ELSE (k :> v)

Strs(l) == JList([i \in 1..Len(l) |-> JStr(l[i])])

Typed(t) == JMap("type" :> JStr(t))

\* an object schema with the given properties map and required list
Obj(props, req) ==
    JMap(("type" :> JStr(Object)) @@ ("properties" :> JMap(props)) @@ ("required" :> Strs(req)))

SeqsUpTo(S, n) == UNION {[1..k -> S] : k \in 0..n}

Orders == {o \in [1..Cardinality(PropNames) -> PropNames] :
             \A i, j \in DOMAIN o : i # j => o[i] # o[j]}

ObjA == Obj("a" :> Typed(String), <<"a">>)
ObjB == Obj("b" :> Typed(Integer), <<"b">>)

\* every combination of the keys the rules of GetTypeSpec look at
FlagNodes ==
    {JMap(Opt(IOS, c.ios) @@ Opt("oneOf", c.oneOf) @@ Opt("allOf", c.allOf)
          @@ Opt("anyOf", c.anyOf) @@ Opt(PUF, c.puf) @@ Opt("type", c.type)
          @@ Opt("properties", c.properties)) :
       c \in [ios : {Absent, JBool(TRUE), JBool(FALSE)},
              oneOf : {Absent, JList(<<Typed(String), Typed(Integer)>>)},
              allOf : {Absent, JList(<<ObjA, ObjB>>)},
              anyOf : {Absent, JList(<<ObjB, ObjA>>)},
              puf : {Absent, JBool(TRUE), JBool(FALSE)},
              type : {Absent, JStr(String), JStr(Object)},
              properties : {Absent, JMap("b" :> Typed(Boolean))}]}

\* alternatives of a oneOf list
Alternatives ==
    {Typed(String), Typed(Integer), JMap(EmptyMap), ObjA,
     JMap(IOS :> JBool(TRUE)), JMap(PUF :> JBool(TRUE)),
     JMap("oneOf" :> JList(<<Typed(Number), Typed("null")>>))}

OneOfNodes == {JMap("oneOf" :> JList(l)) : l \in SeqsUpTo(Alternatives, MaxAlts)}

\* sub-schemas of an allOf or anyOf list
SubSchemas ==
    {ObjA, ObjB,
     JMap("properties" :> JMap(("a" :> Typed(Integer)) @@ ("A" :> ObjB))),
     Typed(String),
     JMap(("properties" :> JMap("b" :> Typed(String))) @@ ("required" :> JStr("b")))}

AllOfNodes == {JMap("allOf" :> JList(l)) : l \in SeqsUpTo(SubSchemas, MaxAlts)}

AnyOfNodes == {JMap("anyOf" :> JList(l)) : l \in SeqsUpTo(SubSchemas, MaxAlts)}

\* property sub-schemas of an object node
PropertySchemas == {Typed(String), ObjA, ObjB}

ObjectNodes ==
    UNION {{Obj(f, <<>>) : f \in [dom -> PropertySchemas]} : dom \in SUBSET PropNames}

OtherNodes ==
    {JNull,
     Typed("null"),
     JMap(("type" :> JStr(Array)) @@ ("items" :> ObjA)),
     JMap(("type" :> JStr(Array))),
     JMap(("type" :> JStr(Object)) @@ ("additionalProperties" :> ObjB)),
     JMap(("type" :> JStr(Object)) @@ ("additionalProperties" :> JBool(TRUE))),
     JMap(("type" :> JStr(Object)) @@ ("additionalProperties" :> JBool(FALSE))),
     JMap(("type" :> JStr(Object)) @@ ("description" :> JStr("d"))
          @@ ("properties" :> JMap("a" :> JMap(("type" :> JStr(Integer))
                                               @@ ("description" :> JStr("p"))
                                               @@ ("default" :> JStr("1")))))),
     JMap(("type" :> JStr(Object)) @@ ("properties" :> JMap("a" :> JStr("x")))),
     JMap(("type" :> JBool(TRUE)))}

ResolveInputs == FlagNodes \cup OneOfNodes \cup AllOfNodes \cup AnyOfNodes \cup ObjectNodes
                 \cup OtherNodes

ProposedName == <<"T">>

\* root schemas of the resource versions
RootSchemas ==
    {JMap(("properties" :> JMap("a" :> Typed(String))) @@ ("required" :> Strs(<<"a">>))),
     Obj(("a" :> ObjB)
         @@ ("b" :> JMap(("type" :> JStr(Array)) @@ ("items" :> ObjA)))
         @@ ("A" :> JMap("oneOf" :> JList(<<ObjA, Typed(String)>>))), <<"b">>),
     JMap(("type" :> JStr(Object)) @@ (PUF :> JBool(TRUE))),
     JMap(("properties" :> JMap("a" :> ObjB)) @@ ("required" :> Strs(<<"a">>))
          @@ (PUF :> JBool(TRUE))),
     Typed(Object),
     JMap(PUF :> JBool(FALSE))}

(***************************************************************************)
(* Spec: GetTypes over the resources, then genPackage on its registry      *)
(***************************************************************************)
NoResult == [ts |-> ZeroTypeSpec, types |-> EmptyMap]

NoResource == [crg |-> 0, version |-> ""]

Init ==
    /\ pc = "GetTypes"
    /\ order \in Orders
    /\ schemaOf \in [Resources -> RootSchemas]
    /\ todo = Resources
    /\ types = EmptyMap
    /\ emptySpecProperties = EmptyMap
    /\ lastResource = NoResource
    /\ typesBefore = EmptyMap
    /\ includeObjectMetaType = FALSE
    /\ pkg = NoPackage
    /\ err = FALSE
    /\ schema = JNull
    /\ result1 = NoResult
    /\ result2 = NoResult
    /\ order2 = order

Next ==
    \/ \E r \in Resources : GetTypesIteration(r)
    \/ \E include \in BOOLEAN, importOk \in BOOLEAN : genPackage(include, importOk)

Spec == Init /\ [][Next]_vars

(***************************************************************************)
(* SpecResolve: GetTypeSpec on one schema node against an empty registry,  *)
(* twice, each run with its own map iteration order                        *)
(***************************************************************************)
InitResolve ==
    /\ pc = "resolve1"
    /\ order \in Orders
    /\ schema \in ResolveInputs
    /\ result1 = NoResult
    /\ result2 = NoResult
    /\ schemaOf = EmptyMap
    /\ todo = {}
    /\ types = EmptyMap
    /\ emptySpecProperties = EmptyMap
    /\ lastResource = NoResource
    /\ typesBefore = EmptyMap
    /\ includeObjectMetaType = FALSE
    /\ pkg = NoPackage
    /\ err = FALSE
    /\ order2 = order

Resolve1 ==
    /\ pc = "resolve1"
    /\ pc' = "resolve2"
    /\ result1' = GetTypeSpec(schema, ProposedName, EmptyMap, order)
    /\ UNCHANGED <<order, schemaOf, todo, types, emptySpecProperties, lastResource,
                   typesBefore, includeObjectMetaType, pkg, err, schema, result2, order2>>

Resolve2(ord) ==
    /\ pc = "resolve2"
    /\ pc' = "resolved"
    /\ order2' = ord
    /\ result2' = GetTypeSpec(schema, ProposedName, EmptyMap, ord)
    /\ UNCHANGED <<order, schemaOf, todo, types, emptySpecProperties, lastResource,
                   typesBefore, includeObjectMetaType, pkg, err, schema, result1>>

NextResolve ==
    \/ Resolve1
    \/ \E ord \in Orders : Resolve2(ord)

SpecResolve == InitResolve /\ [][NextResolve]_vars

(***************************************************************************)
(* Properties of GetTypes and genPackage (specification Spec)              *)
(***************************************************************************)
Processed == Resources \ todo

Skipped(r) == ~foundProperties(r) /\ ~preserveUnknownFields(r)

Shown(name) == PropertiesOf(types[name], emptySpecProperties)

InjectedNames == {"apiVersion", "kind", "metadata"}

\* C1: once GetTypes has processed a resource version whose schema has
\* properties or preserve-unknown-fields set, the type registered under its
\* token has apiVersion = const "<group>/<version>" of that resource, kind =
\* const <kind> of that resource, and metadata = a reference to ObjectMeta.
C1_InjectedFieldsOfEachResource ==
    \A r \in Processed :
        (foundProperties(r) \/ preserveUnknownFields(r)) =>
            /\ Token(r) \in DOMAIN types
            /\ InjectedNames \subseteq DOMAIN Shown(Token(r))
            /\ Shown(Token(r))["apiVersion"] = apiVersionSpec(r)
            /\ Shown(Token(r))["kind"] = kindSpec(r)
            /\ Shown(Token(r))["metadata"] = metadataSpec

\* C2: after genPackage was called with includeObjectMetaType true, whether
\* it returned a package or an error, the registry is what it was before.
C2_RegistryLeftAsFound ==
    (pc = "done" /\ includeObjectMetaType) => types = typesBefore

\* the registry names a type descriptor refers to ("#/types/<name>")
RECURSIVE TypeSpecRefs(_)
TypeSpecRefs(ts) ==
    (IF ts.Ref # <<>> /\ Head(ts.Ref) = "#/types/" THEN {Tail(ts.Ref)} ELSE {})
    \cup (IF ts.Items = NilPtr THEN {} ELSE TypeSpecRefs(ts.Items))
    \cup (IF ts.AdditionalProperties = NilPtr THEN {} ELSE TypeSpecRefs(ts.AdditionalProperties))
    \cup UNION {TypeSpecRefs(ts.OneOf[i]) : i \in 1..Len(ts.OneOf)}

\* every name referred to by a property of a registered type
RegistryRefs ==
    UNION {UNION {TypeSpecRefs(Shown(n)[p].TypeSpec) : p \in DOMAIN Shown(n)} :
             n \in DOMAIN types}

\* C3 as stated: once GetTypes has returned, every name referred to from a
\* property of a registered type, the injected ones included, and every
\* resource token is a key of the registry.
C3_NoDanglingReferences ==
    todo = {} => /\ RegistryRefs \subseteq DOMAIN types
                 /\ ResourceTokens \subseteq DOMAIN types

\* C3 (amended): once GetTypes has returned, every name referred to from a
\* property of a registered type, other than the object-metadata type that the
\* injected metadata field refers to, and every resource token is a key of
\* the registry.
C3_NoDanglingReferencesButObjectMeta ==
    todo = {} => /\ (RegistryRefs \ {objectMetaToken}) \subseteq DOMAIN types
                 /\ ResourceTokens \subseteq DOMAIN types

\* GetTypes has returned a registry with a resource token in it, a reference
\* to a nested type and the reference to ObjectMeta, which is no key of it
C3_Witness ==
    /\ todo = {}
    /\ pc = "GetTypes"
    /\ ResourceTokens # {}
    /\ objectMetaToken \in RegistryRefs
    /\ objectMetaToken \notin DOMAIN types
    /\ \E n \in RegistryRefs : n # objectMetaToken /\ Len(n) > Len(Token(lastResource))

\* C9: an iteration of GetTypes for a resource version whose schema has no
\* properties and no preserve-unknown-fields set to true changes neither the
\* registry nor any registered type's properties, and its token never becomes
\* a key of the registry.
C9_SkippedResource ==
    /\ [](\A r \in Processed : Skipped(r) => Token(r) \notin DOMAIN types)
    /\ [][\A r \in Resources :
            (r \in todo /\ r \notin todo' /\ Skipped(r)) =>
                (types' = types /\ emptySpecProperties' = emptySpecProperties)]_vars

\* a skipped resource was processed after two other resources were registered,
\* one of them through the preserve-unknown-fields path
C9_Witness ==
    /\ lastResource \in Processed
    /\ Skipped(lastResource)
    /\ Cardinality(DOMAIN types) >= 2
    /\ emptySpecProperties # EmptyMap

\* the names AddType alone registers for resource r below its token
NestedNames(r) == DOMAIN AddType(schemaOf[r], Token(r), EmptyMap, order) \ {Token(r)}

\* C10: when a resource version's schema has properties and has
\* preserve-unknown-fields set to true, the type GetTypes leaves under its
\* token has exactly the properties apiVersion, kind and metadata and no
\* required fields, and the nested types of the declared properties are in
\* the registry.
C10_PreserveReplacesProperties ==
    \A r \in Processed :
        (foundProperties(r) /\ preserveUnknownFields(r)) =>
            /\ Token(r) \in DOMAIN types
            /\ DOMAIN Shown(Token(r)) = InjectedNames
            /\ types[Token(r)].Required = <<>>
            /\ NestedNames(r) \subseteq DOMAIN types

\* such a resource was processed and has a nested type
C10_Witness ==
    /\ lastResource \in Processed
    /\ foundProperties(lastResource)
    /\ preserveUnknownFields(lastResource)
    /\ NestedNames(lastResource) # {}
    /\ DOMAIN Shown(Token(lastResource)) = InjectedNames

(***************************************************************************)
(* Properties of GetTypeSpec (specification SpecResolve)                   *)
(***************************************************************************)
Resolved == pc \in {"resolve2", "resolved"}

\* which rule a node falls under, by the keys it carries
IntOrStringTrue(s) == NestedBoolFound(s, IOS) /\ NestedBool(s, IOS)
PreserveTrue(s) == NestedBoolFound(s, PUF) /\ NestedBool(s, PUF)
HasOneOf(s) == NestedMapSliceFound(s, "oneOf")
HasAllOf(s) == NestedMapSliceFound(s, "allOf")
HasAnyOf(s) == NestedMapSliceFound(s, "anyOf")

ByOneOf(s) == s # JNull /\ ~IntOrStringTrue(s) /\ HasOneOf(s)
ByAllOf(s) == s # JNull /\ ~IntOrStringTrue(s) /\ ~HasOneOf(s) /\ HasAllOf(s)
ByAnyOf(s) == s # JNull /\ ~IntOrStringTrue(s) /\ ~HasOneOf(s) /\ ~HasAllOf(s) /\ HasAnyOf(s)
ByPreserve(s) ==
    s # JNull /\ ~IntOrStringTrue(s) /\ ~HasOneOf(s) /\ ~HasAllOf(s) /\ ~HasAnyOf(s)
    /\ PreserveTrue(s)

Range(q) == {q[i] : i \in 1..Len(q)}

RequiredOf(s) == Range(NestedStringSlice(s, "required"))

PropertyNamesOf(s) ==
    IF NestedMapFound(s, "properties") THEN DOMAIN NestedMap(s, "properties").m ELSE {}

ObjectRef(name) == [ZeroTypeSpec EXCEPT !.Type = Object, !.Ref = <<"#/types/">> \o name]

\* C4: the rules apply in the order int-or-string, oneOf, allOf, anyOf,
\* preserve-unknown-fields, missing type, and the first one that matches
\* decides alone.  Int-or-string true gives the int-or-string union and
\* registers nothing, whatever else the node carries; oneOf registers nothing
\* under the proposed name even with allOf or anyOf beside it; allOf of two or
\* more sub-schemas registers the proposed name with its required lists merged
\* even with anyOf beside it; preserve-unknown-fields true (no combinator, no
\* int-or-string) gives a map of string to any and registers nothing, even with
\* type and properties beside it; a node none of these match and without a
\* type gives any.
C4_RuleOrder ==
    Resolved =>
        /\ IntOrStringTrue(schema) =>
              result1 = [ts |-> intOrStringTypeSpec, types |-> EmptyMap]
        /\ ByOneOf(schema) => ProposedName \notin DOMAIN result1.types
        /\ (ByAllOf(schema) /\ Len(NestedMapSlice(schema, "allOf")) >= 2) =>
              /\ result1.ts = ObjectRef(ProposedName)
              /\ ProposedName \in DOMAIN result1.types
              /\ Range(result1.types[ProposedName].Required)
                    = UNION {RequiredOf(sub) : sub \in Range(NestedMapSlice(schema, "allOf"))}
        /\ ByPreserve(schema) =>
              result1 = [ts |-> arbitraryJSONTypeSpec, types |-> EmptyMap]
        /\ (schema # JNull /\ ~IntOrStringTrue(schema) /\ ~HasOneOf(schema)
            /\ ~HasAllOf(schema) /\ ~HasAnyOf(schema) /\ ~PreserveTrue(schema)
            /\ ~NestedStringFound(schema, "type")) =>
              result1 = [ts |-> anyTypeSpec, types |-> EmptyMap]

\* a node of type object with properties and preserve-unknown-fields true was
\* resolved to a map of string to any
C4_Witness ==
    /\ pc = "resolved"
    /\ ByPreserve(schema)
    /\ NestedMapFound(schema, "properties")
    /\ NestedString(schema, "type") = Object
    /\ result1.ts = arbitraryJSONTypeSpec

\* alternative i of the node's oneOf list, resolved on its own
Alternative(i) ==
    GetTypeSpec(NestedMapSlice(schema, "oneOf")[i],
                ProposedName \o <<"OneOf", ToString(i - 1)>>, EmptyMap, order).ts

\* C5: a node resolved by the oneOf rule gives any when at least one of its
\* alternatives resolves to any, and otherwise a union with one member per
\* alternative, in the order of the list.
C5_UnionConservatism ==
    (Resolved /\ ByOneOf(schema)) =>
        LET n == Len(NestedMapSlice(schema, "oneOf"))
        IN IF \E i \in 1..n : isAnyType(Alternative(i))
           THEN result1.ts = anyTypeSpec
           ELSE result1.ts = [ZeroTypeSpec EXCEPT !.OneOf = [i \in 1..n |-> Alternative(i)]]

\* a oneOf list whose first alternative is an object and whose second one
\* cannot be represented was resolved to any
C5_Witness ==
    /\ pc = "resolved"
    /\ ByOneOf(schema)
    /\ Len(NestedMapSlice(schema, "oneOf")) = 2
    /\ Alternative(1) = ObjectRef(ProposedName \o <<"OneOf", "0">>)
    /\ isAnyType(Alternative(2))
    /\ result1.ts = anyTypeSpec

\* the two sub-schemas of a list each declare properties and required fields,
\* and the required lists are disjoint
TwoWithDisjointRequired(l) ==
    /\ Len(l) = 2
    /\ \A i \in 1..2 : NestedMapFound(l[i], "properties")
                       /\ NestedStringSliceFound(l[i], "required")
    /\ RequiredOf(l[1]) \cap RequiredOf(l[2]) = {}

\* the registry entry the allOf of list l gives under the proposed name
AllOfEntry(l) ==
    GetTypeSpec(JMap("allOf" :> JList(l)), ProposedName, EmptyMap, order).types[ProposedName]

\* C6: allOf of two sub-schemas with properties and disjoint required lists
\* registers under the proposed name an object type whose required set is the
\* union of the two lists; anyOf of the same two registers an object type
\* with the same properties as the allOf one and no required fields.
C6_AllOfMergesRequiredAnyOfDoesNot ==
    Resolved =>
        /\ (ByAllOf(schema) /\ TwoWithDisjointRequired(NestedMapSlice(schema, "allOf"))) =>
              LET l == NestedMapSlice(schema, "allOf")
              IN /\ ProposedName \in DOMAIN result1.types
                 /\ result1.types[ProposedName].Type = Object
                 /\ Range(result1.types[ProposedName].Required)
                       = RequiredOf(l[1]) \cup RequiredOf(l[2])
                 /\ DOMAIN result1.types[ProposedName].Properties.m
                       = PropertyNamesOf(l[1]) \cup PropertyNamesOf(l[2])
        /\ (ByAnyOf(schema) /\ TwoWithDisjointRequired(NestedMapSlice(schema, "anyOf"))) =>
              LET l == NestedMapSlice(schema, "anyOf")
              IN /\ ProposedName \in DOMAIN result1.types
                 /\ result1.types[ProposedName].Type = Object
                 /\ result1.types[ProposedName].Required = <<>>
                 /\ result1.types[ProposedName].Properties = AllOfEntry(l).Properties

\* an anyOf of two sub-schemas that require a and b was resolved
C6_Witness ==
    /\ pc = "resolved"
    /\ ByAnyOf(schema)
    /\ TwoWithDisjointRequired(NestedMapSlice(schema, "anyOf"))
    /\ RequiredOf(NestedMapSlice(schema, "anyOf")[1]) # {}
    /\ RequiredOf(NestedMapSlice(schema, "anyOf")[2]) # {}
    /\ AllOfEntry(NestedMapSlice(schema, "anyOf")).Required # <<>>
    /\ result1.types[ProposedName].Required = <<>>

\* C7: a node resolved by the anyOf rule with a non-empty list, of any
\* length, leaves under the proposed name an object type with no required
\* fields.
C7_AnyOfAllOptional ==
    (Resolved /\ ByAnyOf(schema) /\ Len(NestedMapSlice(schema, "anyOf")) >= 1
     /\ ProposedName \in DOMAIN result1.types) =>
        result1.types[ProposedName].Required = <<>>

\* C8: resolving the same node under the same name against an empty registry
\* twice gives the same descriptor and the same registry, whatever order the
\* properties maps are iterated in.
C8_Deterministic ==
    pc = "resolved" => result1 = result2

====
